---- MODULE Spec2Model ----
(***************************************************************************)
(* dbterd (dbt-docs-dml): DbmlDocs in src/src/dbterd/core.py.              *)
(*                                                                         *)
(* A Python string is a sequence of tokens.  A token is one character      *)
(* ("a", "'", "\n") or a literal of the source that is never taken apart   *)
(* ("Table ", "Note: '", "{{", "doc(").  A dict is a function whose        *)
(* DOMAIN is its key set; Python's None is the record None.  The content   *)
(* of the output file is the sequence of the write() calls made on it.     *)
(***************************************************************************)
EXTENDS Naturals, Sequences, FiniteSets, TLC

VARIABLES
    schema_file,    \* the file at schema_path
    catalog_file,   \* the file at catalog_path
    docs_dir,       \* the directory at docs_path
    dbml,           \* the file at dbml_path: [exists, content]
    schema,         \* self.schema
    catalog,        \* self.catalog
    docs_dict,      \* self.docs_dict
    tables,         \* GenerateDbml's local allow-list
    idx,            \* GenerateDbml's position in catalog["nodes"]
    pc,             \* position of the run
    opened,         \* open(self.dbml_path, "w") has been executed
    error,          \* the exception that ended the run ("" when none)
    arg,            \* argument of a direct call of a description function
    ret             \* its return value

vars == <<schema_file, catalog_file, docs_dir, dbml, schema, catalog,
          docs_dict, tables, idx, pc, opened, error, arg, ret>>

None == [None |-> TRUE]

-----------------------------------------------------------------------------
(* Bounds of the explored inputs.                                          *)

MaxNodes == 2        \* catalog nodes of a driver run
MaxModels == 2       \* schema models of a driver run
MaxCols == 2         \* catalog columns of a table run
MaxSchemaCols == 1   \* schema columns of a table run
MaxTests == 2        \* tests of a schema column of a table run
MaxParts == 3        \* parts a description text is assembled from

-----------------------------------------------------------------------------
(* str methods.                                                            *)

UpperChar(c) ==
    CASE c = "a" -> "A" [] c = "b" -> "B" [] c = "c" -> "C" [] c = "d" -> "D"
      [] c = "i" -> "I" [] c = "x" -> "X"
      [] c = "ref(" -> "REF(" [] c = "source(" -> "SOURCE("
      [] OTHER -> c

LowerChar(c) ==
    CASE c = "A" -> "a" [] c = "B" -> "b" [] c = "C" -> "c" [] c = "D" -> "d"
      [] c = "I" -> "i" [] c = "X" -> "x"
      [] c = "REF(" -> "ref(" [] c = "SOURCE(" -> "source("
      [] OTHER -> c

\* s.upper()
Upper(s) == [k \in 1..Len(s) |-> UpperChar(s[k])]

\* s.lower()
Lower(s) == [k \in 1..Len(s) |-> LowerChar(s[k])]

\* s.replace("'", "")
StripQuotes(s) == SelectSeq(s, LAMBDA c : c # "'")

\* sub in s, for a one-token sub
Contains(s, tok) == \E k \in 1..Len(s) : s[k] = tok

IsSpace(c) == c \in {" ", "\n"}

RECURSIVE LStrip(_)
LStrip(s) == IF s # <<>> /\ IsSpace(Head(s)) THEN LStrip(Tail(s)) ELSE s

RECURSIVE RStrip(_)
RStrip(s) ==
    IF s # <<>> /\ IsSpace(s[Len(s)]) THEN RStrip(SubSeq(s, 1, Len(s) - 1)) ELSE s

\* s.strip()
Strip(s) == RStrip(LStrip(s))

\* sep.join(items), for a one-token sep
RECURSIVE Join(_, _)
Join(items, sep) ==
    IF items = <<>> THEN <<>>
    ELSE IF Len(items) = 1 THEN items[1]
    ELSE items[1] \o <<sep>> \o Join(Tail(items), sep)

\* All sequences over S of length at most n.
RECURSIVE SeqsUpTo(_, _)
SeqsUpTo(S, n) ==
    IF n = 0 THEN {<<>>}
    ELSE LET shorter == SeqsUpTo(S, n - 1)
         IN  shorter \cup {Append(s, e) : s \in shorter, e \in S}

-----------------------------------------------------------------------------
(* Loading: LoadSchema, LoadCatalog, ParseDocsMarkdownFiles.               *)
(* An input file is [status |-> "ok", doc |-> d], or has status "missing"  *)
(* (FileNotFoundError), "malformed" (YAMLError, JSONDecodeError) or        *)
(* "unreadable" (an OSError that the except clauses do not name, such as   *)
(* PermissionError, which leaves the loader and __init__).                 *)

LoadRaises(f) == f.status = "unreadable"

LoadSchema(f) == IF f.status = "ok" THEN f.doc ELSE None

LoadCatalog(f) == IF f.status = "ok" THEN f.doc ELSE None

\* d[key] = value
DictSet(d, key, value) ==
    [k \in DOMAIN d \cup {key} |-> IF k = key THEN value ELSE d[k]]

\* d.get(key, default)
DictGet(d, key, default) == IF key \in DOMAIN d THEN d[key] ELSE default

\* The matches of docs_pattern in one file, folded into docs_dict.  A match
\* is [name |-> group(1), body |-> group(2)].
RECURSIVE AddBlocks(_, _)
AddBlocks(d, blocks) ==
    IF blocks = <<>> THEN d
    ELSE LET key == Strip(Head(blocks).name)
             value == Strip(Head(blocks).body)
         IN  AddBlocks(DictSet(d, key, StripQuotes(value)), Tail(blocks))

RECURSIVE AddFiles(_, _)
AddFiles(d, files) ==
    IF files = <<>> THEN d
    ELSE LET f == Head(files)
         IN  IF f.suffix = ".md" /\ f.readable
             THEN AddFiles(AddBlocks(d, f.blocks), Tail(files))
             ELSE AddFiles(d, Tail(files))

ParseDocsMarkdownFiles(dir) ==
    IF dir.exists THEN AddFiles(<<>>, dir.files) ELSE <<>>

-----------------------------------------------------------------------------
(* ReplaceJinjaVariables: re.sub of                                        *)
(*     '?{{\s*doc\(\s*"(\w+)"\s*\)\s*}}'?\n?                               *)
(* by docs_dict.get(group(1), "").                                         *)

WordTokens == {"a", "b", "c", "d", "i", "x", "A", "B", "C", "D", "I", "X",
               "k1", "k2"}

At(t, j, tok) == j <= Len(t) /\ t[j] = tok

\* \s* from position j: the first position at or after j that holds no space
RECURSIVE SkipSpace(_, _)
SkipSpace(t, j) ==
    IF j <= Len(t) /\ IsSpace(t[j]) THEN SkipSpace(t, j + 1) ELSE j

\* \w* from position j
RECURSIVE SkipWord(_, _)
SkipWord(t, j) ==
    IF j <= Len(t) /\ t[j] \in WordTokens THEN SkipWord(t, j + 1) ELSE j

NoMatch == [end |-> 0, key |-> <<>>]

\* The match of the pattern that starts at position i: end is the position
\* after it (0 when there is none) and key is group(1).
MatchAt(t, i) ==
    LET open == IF At(t, i, "'") THEN i + 1 ELSE i
        call == SkipSpace(t, open + 1)
        quote1 == SkipSpace(t, call + 1)
        quote2 == SkipWord(t, quote1 + 1)
        paren == SkipSpace(t, quote2 + 1)
        close == SkipSpace(t, paren + 1)
        after == IF At(t, close + 1, "'") THEN close + 2 ELSE close + 1
        last == IF At(t, after, "\n") THEN after + 1 ELSE after
    IN  IF /\ At(t, open, "{{")
           /\ At(t, call, "doc(")
           /\ At(t, quote1, "\"")
           /\ quote2 > quote1 + 1
           /\ At(t, quote2, "\"")
           /\ At(t, paren, ")")
           /\ At(t, close, "}}")
        THEN [end |-> last, key |-> SubSeq(t, quote1 + 1, quote2 - 1)]
        ELSE NoMatch

RECURSIVE SubFrom(_, _, _)
SubFrom(d, t, i) ==
    IF i > Len(t) THEN <<>>
    ELSE LET m == MatchAt(t, i)
         IN  IF m.end > 0
             THEN DictGet(d, m.key, <<>>) \o SubFrom(d, t, m.end)
             ELSE <<t[i]>> \o SubFrom(d, t, i + 1)

\* The revision kept in comments at lines 66-71: an unresolved reference is
\* left as it is, get(group(1), group(0)).
RECURSIVE SubFromKeeping(_, _, _)
SubFromKeeping(d, t, i) ==
    IF i > Len(t) THEN <<>>
    ELSE LET m == MatchAt(t, i)
         IN  IF m.end > 0
             THEN DictGet(d, m.key, SubSeq(t, i, m.end - 1))
                      \o SubFromKeeping(d, t, m.end)
             ELSE <<t[i]>> \o SubFromKeeping(d, t, i + 1)

ReplaceJinjaVariables_KeepUnresolved(d, text) == SubFromKeeping(d, text, 1)

ReplaceJinjaVariables(d, text) == SubFrom(d, text, 1)

ParseDescription(d, entity) ==
    IF "description" \notin DOMAIN entity THEN <<>>
    ELSE IF Contains(entity.description, "{{")
         THEN <<"Note: '">> \o ReplaceJinjaVariables(d, entity.description) \o <<"'">>
         ELSE <<"Note: '">> \o StripQuotes(entity.description) \o <<"'">>

-----------------------------------------------------------------------------
(* WriteTable.  catalog["nodes"] and a node's "columns" are dicts in load  *)
(* order: sequences here, a position standing for the key.  A call returns *)
(* [ok, writes, error]: the write() calls it made, and the exception that  *)
(* ended it when ok is FALSE.                                              *)

IsStr(test) == "str" \in DOMAIN test

\* First position k of seq with seq[k].name = name, 0 when there is none:
\* the for ... if ... break loops of lines 131-134 and 150-153.
RECURSIVE FindFrom(_, _, _)
FindFrom(seq, name, k) ==
    IF k > Len(seq) THEN 0
    ELSE IF seq[k].name = name THEN k
    ELSE FindFrom(seq, name, k + 1)

FindByName(seq, name) == FindFrom(seq, name, 1)

\* TestTags with not_null looked for first and unique second, whatever the
\* order of the list
TestTags_NotNullFirst(schema_tests) ==
    LET has(tag) == \E k \in 1..Len(schema_tests) :
                        IsStr(schema_tests[k]) /\ schema_tests[k].str = tag
    IN  (IF has("not_null") THEN << <<"not null">> >> ELSE <<>>)
            \o (IF has("unique") THEN << <<"unique, pk">> >> ELSE <<>>)

\* Lines 159-163: the tags of the tests, in the order of the list.
RECURSIVE TestTags(_)
TestTags(schema_tests) ==
    IF schema_tests = <<>> THEN <<>>
    ELSE LET t == Head(schema_tests)
             tag == IF IsStr(t) /\ t.str = "not_null" THEN << <<"not null">> >>
                    ELSE IF IsStr(t) /\ t.str = "unique" THEN << <<"unique, pk">> >>
                    ELSE <<>>
         IN  tag \o TestTags(Tail(schema_tests))

\* Lines 155-170: column_tests_and_description of a matched schema column.
ColumnDocs(d, schema_column) ==
    LET tags == IF "tests" \in DOMAIN schema_column
                THEN TestTags(schema_column.tests) ELSE <<>>
        column_description == ParseDescription(d, schema_column)
        column_docs_list == IF column_description # <<>>
                            THEN Append(tags, column_description) ELSE tags
    IN  IF column_docs_list # <<>>
        THEN <<"[">> \o Join(column_docs_list, ", ") \o <<"]">>
        ELSE <<>>

\* ColumnLine with the brackets written around an empty column_docs_list too
ColumnLine_EmptyBrackets(d, schema_model, column) ==
    LET name == column.name
        dtype == column.type
        k == FindByName(schema_model.columns, Lower(name))
        column_tests_and_description ==
            IF k # 0 /\ ColumnDocs(d, schema_model.columns[k]) # <<>>
            THEN ColumnDocs(d, schema_model.columns[k]) ELSE <<"[", "]">>
    IN  name \o <<" ">> \o dtype \o <<" ">> \o column_tests_and_description
             \o <<" \n">>

\* Lines 141-172: the write() of one catalog column.
ColumnLine(d, schema_model, column) ==
    LET name == column.name
        dtype == column.type
        k == FindByName(schema_model.columns, Lower(name))
        column_tests_and_description ==
            IF k # 0 THEN ColumnDocs(d, schema_model.columns[k]) ELSE <<>>
    IN  name \o <<" ">> \o dtype \o <<" ">> \o column_tests_and_description
             \o <<" \n">>

WriteTable(sch, d, model) ==
    LET name == model.metadata.name
        m == FindByName(sch.models, Lower(name))
    IN  IF m = 0
        THEN \* ParseDescription(None): "description" not in None
             [ok |-> FALSE, writes |-> <<>>, error |-> "TypeError"]
        ELSE LET schema_model == sch.models[m]
                 model_description == ParseDescription(d, schema_model)
                 header == <<"Table ">> \o name \o <<" ", "{", " \n">>
                 lines == [c \in 1..Len(model.columns) |->
                              ColumnLine(d, schema_model, model.columns[c])]
                 footer == model_description \o <<" \n", "}", " \n">>
             IN  [ok |-> TRUE,
                  writes |-> <<header>> \o lines \o <<footer>>,
                  error |-> ""]

-----------------------------------------------------------------------------
(* WriteRelationship.  A call threads [ok, writes, error] through the      *)
(* three nested loops; nothing is written after an exception.              *)

\* re.findall(r"('.*?')", s, re.DOTALL): the position pairs <<i, j>> of the
\* quoted literals of s, leftmost first, found from position k on.
RECURSIVE NextQuote(_, _)
NextQuote(s, k) ==
    IF k > Len(s) THEN 0 ELSE IF s[k] = "'" THEN k ELSE NextQuote(s, k + 1)

FirstLiteral(s) ==
    LET i == NextQuote(s, 1)
        j == IF i = 0 THEN 0 ELSE NextQuote(s, i + 1)
    IN  IF j = 0 THEN <<>> ELSE <<SubSeq(s, i, j)>>

\* RelationshipLine with the source column written as the schema spells it
RelationshipLine_SourceFieldAsIs(model, column, relationship) ==
    IF "to" \notin DOMAIN relationship
    THEN [ok |-> FALSE, writes |-> <<>>, error |-> "KeyError"]
    ELSE LET found == FirstLiteral(Upper(relationship.to))
         IN  IF found = <<>>
             THEN [ok |-> FALSE, writes |-> <<>>, error |-> "IndexError"]
             ELSE IF "field" \notin DOMAIN relationship
             THEN [ok |-> FALSE, writes |-> <<>>, error |-> "KeyError"]
             ELSE [ok |-> TRUE,
                   writes |-> << <<"Ref: ">> \o StripQuotes(found[1]) \o <<".">>
                                 \o Upper(relationship.field) \o <<" > ">>
                                 \o Upper(model.name) \o <<".">> \o column.name
                                 \o <<" \n">> >>,
                   error |-> ""]

\* Lines 186-194 for one test that holds "relationships".
RelationshipLine(model, column, relationship) ==
    IF "to" \notin DOMAIN relationship
    THEN [ok |-> FALSE, writes |-> <<>>, error |-> "KeyError"]
    ELSE LET found == FirstLiteral(Upper(relationship.to))
         IN  IF found = <<>>
             THEN [ok |-> FALSE, writes |-> <<>>, error |-> "IndexError"]
             ELSE IF "field" \notin DOMAIN relationship
             THEN [ok |-> FALSE, writes |-> <<>>, error |-> "KeyError"]
             ELSE LET r1 == StripQuotes(found[1])
                      r1_field == Upper(relationship.field)
                      r2 == Upper(model.name)
                      r2_field == Upper(column.name)
                  IN  [ok |-> TRUE,
                       writes |-> << <<"Ref: ">> \o r1 \o <<".">> \o r1_field
                                     \o <<" > ">> \o r2 \o <<".">> \o r2_field
                                     \o <<" \n">> >>,
                       error |-> ""]

Then(acc, step) ==
    [ok |-> step.ok, writes |-> acc.writes \o step.writes, error |-> step.error]

RECURSIVE RelTests(_, _, _, _)
RelTests(acc, model, column, tests) ==
    IF ~acc.ok \/ tests = <<>> THEN acc
    ELSE LET test == Head(tests)
         IN  IF ~IsStr(test) /\ "relationships" \in DOMAIN test
             THEN RelTests(Then(acc, RelationshipLine(model, column,
                                                      test.relationships)),
                           model, column, Tail(tests))
             ELSE RelTests(acc, model, column, Tail(tests))

RECURSIVE RelColumns(_, _, _)
RelColumns(acc, model, columns) ==
    IF ~acc.ok \/ columns = <<>> THEN acc
    ELSE LET column == Head(columns)
         IN  IF "tests" \in DOMAIN column
             THEN RelColumns(RelTests(acc, model, column, column.tests),
                             model, Tail(columns))
             ELSE RelColumns(acc, model, Tail(columns))

RECURSIVE RelModels(_, _)
RelModels(acc, models) ==
    IF ~acc.ok \/ models = <<>> THEN acc
    ELSE RelModels(RelColumns(acc, Head(models), Head(models).columns),
                   Tail(models))

WriteRelationship(sch) ==
    RelModels([ok |-> TRUE, writes |-> <<>>, error |-> ""], sch.models)

-----------------------------------------------------------------------------
(* The run: cli() constructs DbmlDocs and calls GenerateDbml.              *)

\* __init__, lines 25-28
Construct ==
    /\ pc = "new"
    /\ IF LoadRaises(schema_file) \/ LoadRaises(catalog_file)
       THEN /\ pc' = "failed"
            /\ error' = "PermissionError"
            /\ UNCHANGED <<schema, catalog, docs_dict>>
       ELSE /\ schema' = LoadSchema(schema_file)
            /\ catalog' = LoadCatalog(catalog_file)
            /\ docs_dict' = ParseDocsMarkdownFiles(docs_dir)
            /\ pc' = "constructed"
            /\ UNCHANGED error
    /\ UNCHANGED <<schema_file, catalog_file, docs_dir, dbml, tables, idx,
                   opened, arg, ret>>

\* Line 202
AllowList(sch) == [k \in 1..Len(sch.models) |-> Upper(sch.models[k].name)]

\* x in list
InList(x, list) == \E k \in 1..Len(list) : list[k] = x

\* GenerateDbmlOpen with the allow-list of line 202 computed inside the with
\* block: the file is open when None["models"] raises.
GenerateDbmlOpen_AllowListInsideWith ==
    /\ pc = "constructed"
    /\ IF catalog = None
       THEN /\ pc' = "failed"
            /\ error' = "TypeError"
            /\ UNCHANGED <<dbml, tables, idx, opened>>
       ELSE IF schema = None
       THEN /\ dbml' = [exists |-> TRUE, content |-> <<>>]
            /\ opened' = TRUE
            /\ pc' = "failed"
            /\ error' = "TypeError"
            /\ UNCHANGED <<tables, idx>>
       ELSE /\ tables' = AllowList(schema)
            /\ dbml' = [exists |-> TRUE, content |-> <<>>]
            /\ opened' = TRUE
            /\ idx' = 1
            /\ pc' = "tables"
            /\ UNCHANGED error
    /\ UNCHANGED <<schema_file, catalog_file, docs_dir, schema, catalog,
                   docs_dict, arg, ret>>

\* GenerateDbml, lines 201-204: the two subscripts, then open(..., "w").
\* None["nodes"] and None["models"] raise TypeError before the open.
GenerateDbmlOpen ==
    /\ pc = "constructed"
    /\ IF catalog = None \/ schema = None
       THEN /\ pc' = "failed"
            /\ error' = "TypeError"
            /\ UNCHANGED <<dbml, tables, idx, opened>>
       ELSE /\ tables' = AllowList(schema)
            /\ dbml' = [exists |-> TRUE, content |-> <<>>]
            /\ opened' = TRUE
            /\ idx' = 1
            /\ pc' = "tables"
            /\ UNCHANGED error
    /\ UNCHANGED <<schema_file, catalog_file, docs_dir, schema, catalog,
                   docs_dict, arg, ret>>

\* GenerateDbml, lines 205-208: one iteration of the loop over the nodes.
\* An exception leaves the with block, which closes the file.
TableStep ==
    /\ pc = "tables"
    /\ idx <= Len(catalog.nodes)
    /\ LET model == catalog.nodes[idx]
       IN  IF InList(model.metadata.name, tables)
           THEN LET r == WriteTable(schema, docs_dict, model)
                IN  /\ dbml' = [dbml EXCEPT !.content = @ \o r.writes]
                    /\ error' = r.error
                    /\ pc' = IF r.ok THEN "tables" ELSE "failed"
                    /\ idx' = IF r.ok THEN idx + 1 ELSE idx
           ELSE /\ idx' = idx + 1
                /\ UNCHANGED <<dbml, error, pc>>
    /\ UNCHANGED <<schema_file, catalog_file, docs_dir, schema, catalog,
                   docs_dict, tables, opened, arg, ret>>

\* GenerateDbml, line 209, and the end of the with block.
Relationships ==
    /\ pc = "tables"
    /\ idx > Len(catalog.nodes)
    /\ LET r == WriteRelationship(schema)
       IN  /\ dbml' = [dbml EXCEPT !.content = @ \o r.writes]
           /\ error' = r.error
           /\ pc' = IF r.ok THEN "done" ELSE "failed"
    /\ UNCHANGED <<schema_file, catalog_file, docs_dir, schema, catalog,
                   docs_dict, tables, idx, opened, arg, ret>>

Next == Construct \/ GenerateDbmlOpen \/ TableStep \/ Relationships

\* Direct calls of the two description functions on a constructed object.
CallReplaceJinjaVariables ==
    /\ pc = "call"
    /\ "description" \in DOMAIN arg
    /\ ret' = ReplaceJinjaVariables(docs_dict, arg.description)
    /\ pc' = "ReplaceJinjaVariables"
    /\ UNCHANGED <<schema_file, catalog_file, docs_dir, dbml, schema, catalog,
                   docs_dict, tables, idx, opened, error, arg>>

CallParseDescription ==
    /\ pc = "call"
    /\ ret' = ParseDescription(docs_dict, arg)
    /\ pc' = "ParseDescription"
    /\ UNCHANGED <<schema_file, catalog_file, docs_dir, dbml, schema, catalog,
                   docs_dict, tables, idx, opened, error, arg>>

NextDesc == CallReplaceJinjaVariables \/ CallParseDescription

-----------------------------------------------------------------------------
(* The explored inputs.                                                    *)

Integer == <<"integer">>

RefTo(name) == <<"ref(", "'">> \o name \o <<"'", ")">>

Rel(to, field) == [relationships |-> [to |-> to, field |-> field]]

FailingFiles ==
    {[status |-> "missing"], [status |-> "malformed"], [status |-> "unreadable"]}

DocRef1 == <<"{{", " ", "doc(", "\"", "k1", "\"", ")", " ", "}}">>

DocRef2 == <<"'", "{{", "doc(", "\"", "k2", "\"", ")", "}}", "'", "\n">>

OldFile == [exists |-> TRUE, content |-> << <<"old">> >>]

NoFile == [exists |-> FALSE, content |-> <<>>]

DocsOne ==
    [exists |-> TRUE,
     files |-> << [suffix |-> ".md", readable |-> TRUE,
                   blocks |-> << [name |-> <<"k1">>,
                                  body |-> <<"\n", "i", "'", "d", "\n">>] >>] >>]

\* Driver runs: tables that match, do not match, and relationship tests.
CatalogNames == {<<"a", "b">>, <<"A", "B">>, <<"C">>}

SchemaNames == {<<"a", "b">>, <<"A", "B">>, <<"c">>}

DriverNodes ==
    {[metadata |-> [name |-> n],
      columns |-> << [name |-> <<"I", "D">>, type |-> Integer] >>]
        : n \in CatalogNames}

DriverColumns ==
    { << [name |-> <<"i", "d">>, description |-> <<"x">> \o DocRef2 \o DocRef1] >>,
      << [name |-> <<"i", "d">>,
          tests |-> << [str |-> "not_null"],
                       Rel(RefTo(<<"c">>), <<"i", "d">>),
                       Rel(<<"source(", "'", "a", "'", ",", "'", "b", "'", ")">>,
                           <<"x">>) >>],
         [name |-> <<"x">>,
          tests |-> << [accepted_values |-> <<"a">>],
                       Rel(RefTo(<<"a", "b">>), <<"x">>) >>] >>,
      << [name |-> <<"i", "d">>,
          tests |-> << Rel(RefTo(<<"c">>), <<"x">>),
                       [relationships |-> [to |-> RefTo(<<"c">>)]] >>] >>,
      << [name |-> <<"x">>,
          tests |-> << [relationships |-> [field |-> <<"x">>]] >>] >>,
      << [name |-> <<"x">>,
          tests |-> << Rel(<<"ref(", "\"", "c", "\"", ")">>, <<"x">>) >>] >> }

DriverModels ==
    {[name |-> n, columns |-> cols] : n \in SchemaNames, cols \in DriverColumns}

DriverCatalogFiles ==
    FailingFiles \cup
    {[status |-> "ok", doc |-> [nodes |-> ns]]
        : ns \in SeqsUpTo(DriverNodes, MaxNodes)}

DriverSchemaFiles ==
    FailingFiles \cup
    {[status |-> "ok", doc |-> [models |-> ms]]
        : ms \in SeqsUpTo(DriverModels, MaxModels)}

InitRun(schemaFiles, catalogFiles, docsDirs, dbmlFiles) ==
    /\ schema_file \in schemaFiles
    /\ catalog_file \in catalogFiles
    /\ docs_dir \in docsDirs
    /\ dbml \in dbmlFiles
    /\ schema = None
    /\ catalog = None
    /\ docs_dict = <<>>
    /\ tables = <<>>
    /\ idx = 0
    /\ pc = "new"
    /\ opened = FALSE
    /\ error = ""
    /\ arg = None
    /\ ret = <<>>

Init == InitRun(DriverSchemaFiles, DriverCatalogFiles, {DocsOne}, {OldFile, NoFile})

Spec == Init /\ [][Next]_vars

\* Table runs: one catalog table AB that the schema declares as ab, with
\* columns that match, differ in case, or have no counterpart.
CatalogColumns ==
    {[name |-> n, type |-> Integer]
        : n \in {<<"i", "d">>, <<"I", "D">>, <<"I", "d">>, <<"x">>}}

TestLists ==
    SeqsUpTo({[str |-> "not_null"], [str |-> "unique"]}, MaxTests)

SchemaColumns ==
    UNION {{ [name |-> n],
             [name |-> n, description |-> <<"a", "b">>] } \cup
           { [name |-> n, tests |-> ts] : ts \in TestLists } \cup
           { [name |-> n, tests |-> ts, description |-> <<"a", "b">>]
                : ts \in TestLists }
              : n \in {<<"i", "d">>, <<"I", "D">>}}

TableCatalogFiles ==
    {[status |-> "ok",
      doc |-> [nodes |-> << [metadata |-> [name |-> <<"A", "B">>],
                            columns |-> cols] >>]]
        : cols \in SeqsUpTo(CatalogColumns, MaxCols)}

TableSchemaFiles ==
    {[status |-> "ok",
      doc |-> [models |-> << [name |-> <<"a", "b">>, columns |-> cols] >>]]
        : cols \in SeqsUpTo(SchemaColumns, MaxSchemaCols)}

InitTable == InitRun(TableSchemaFiles, TableCatalogFiles, {DocsOne}, {OldFile})

SpecTable == InitTable /\ [][Next]_vars

\* Description calls: texts assembled from parts, over several docs
\* directories.
DescParts ==
    { <<"a">>, <<"'">>, <<" ">>, DocRef1, DocRef2, <<"{{">>,
      <<"{{", "doc(", "\"", "\"", ")", "}}">> }

RECURSIVE Concats(_, _)
Concats(parts, n) ==
    IF n = 0 THEN {<<>>}
    ELSE LET shorter == Concats(parts, n - 1)
         IN  shorter \cup {s \o p : s \in shorter, p \in parts}

DescEntities ==
    {[name |-> <<"i", "d">>]} \cup
    {[name |-> <<"i", "d">>, description |-> t] : t \in Concats(DescParts, MaxParts)}

DocsDirs ==
    { [exists |-> FALSE],
      DocsOne,
      [exists |-> TRUE,
       files |-> << [suffix |-> ".md", readable |-> TRUE,
                     blocks |-> << [name |-> <<"k1">>, body |-> <<"a">>],
                                   [name |-> <<" ", "k2", " ">>,
                                    body |-> <<" ", "b", "'", " ">>] >>],
                    [suffix |-> ".md", readable |-> FALSE,
                     blocks |-> << [name |-> <<"k1">>, body |-> <<"c">>] >>],
                    [suffix |-> ".txt", readable |-> TRUE,
                     blocks |-> << [name |-> <<"k2">>, body |-> <<"c">>] >>],
                    [suffix |-> ".md", readable |-> TRUE,
                     blocks |-> << [name |-> <<"k1">>, body |-> <<"d">>] >>] >>] }

InitDesc ==
    /\ schema_file = [status |-> "missing"]
    /\ catalog_file = [status |-> "missing"]
    /\ docs_dir \in DocsDirs
    /\ dbml = OldFile
    /\ schema = LoadSchema(schema_file)
    /\ catalog = LoadCatalog(catalog_file)
    /\ docs_dict = ParseDocsMarkdownFiles(docs_dir)
    /\ tables = <<>>
    /\ idx = 0
    /\ pc = "call"
    /\ opened = FALSE
    /\ error = ""
    /\ arg \in DescEntities
    /\ ret = <<>>

SpecDesc == InitDesc /\ [][NextDesc]_vars

-----------------------------------------------------------------------------
(* Reading the output file.                                                *)

IsHeader(w) == w # <<>> /\ w[1] = "Table "

IsRef(w) == w # <<>> /\ w[1] = "Ref: "

\* The name written between "Table " and " { \n"
HeaderName(w) == SubSeq(w, 2, Len(w) - 3)

EmittedTables ==
    LET headers == SelectSeq(dbml.content, IsHeader)
    IN  [k \in 1..Len(headers) |-> HeaderName(headers[k])]

EmittedRefs == SelectSeq(dbml.content, IsRef)

SameIgnoringCase(a, b) == Upper(a) = Upper(b)

-----------------------------------------------------------------------------
(* Driver claims, verified under Spec.                                      *)

\* The relationship tests of the schema, as <<model, column, test>> positions
RelPositions ==
    UNION {UNION {{<<m, c, t>> : t \in
                      {t \in 1..(IF "tests" \in DOMAIN schema.models[m].columns[c]
                                 THEN Len(schema.models[m].columns[c].tests)
                                 ELSE 0) :
                          LET test == schema.models[m].columns[c].tests[t]
                          IN  ~IsStr(test) /\ "relationships" \in DOMAIN test}}
                  : c \in 1..Len(schema.models[m].columns)}
           : m \in 1..Len(schema.models)}

\* The catalog tables whose name equals, ignoring case, a schema model's name
CaseInsensitiveTables ==
    LET wanted(node) == \E k \in 1..Len(schema.models) :
                            SameIgnoringCase(schema.models[k].name,
                                             node.metadata.name)
        nodes == SelectSeq(catalog.nodes, wanted)
    IN  [k \in 1..Len(nodes) |-> nodes[k].metadata.name]

\* C1: on a successful run the emitted tables are exactly the catalog tables
\* whose name equals a schema model's name ignoring case, once each, in
\* catalog order (so a catalog table `ab` declared as `ab` is emitted).
C1_TablesMatchIgnoringCase ==
    pc = "done" => EmittedTables = CaseInsensitiveTables

\* C2: a catalog table that passes the allow-list filter and has no schema
\* model in WriteTable's lookup never aborts the run: the loop over the
\* catalog tables is never left by an exception.
C2_UnmatchedTableNeverFatal ==
    ~(pc = "failed" /\ opened /\ idx <= Len(catalog.nodes))

\* C3: a run is all-or-nothing: when it succeeds the output file holds every
\* table block and then every relationship line, and when it fails the
\* output file has not been written, created or truncated.
C3_FailedRunLeavesNoOutput ==
    /\ pc = "done" =>
           /\ opened
           /\ Len(EmittedTables) =
                  Cardinality({k \in 1..Len(catalog.nodes) :
                                  InList(catalog.nodes[k].metadata.name, tables)})
           /\ Len(EmittedRefs) = Cardinality(RelPositions)
    /\ pc = "failed" => (~opened /\ dbml \in {OldFile, NoFile})

\* C4: when the schema file or the catalog file does not load, the run never
\* opens the output file: no write, creation or truncation happens, and the
\* run does not get past the two subscripts that precede the open.
C4_LoadFailureBeforeOpen ==
    (schema_file.status # "ok" \/ catalog_file.status # "ok")
        => (~opened /\ dbml \in {OldFile, NoFile}
            /\ pc \in {"new", "constructed", "failed"})

\* C4 witness: a run whose catalog loaded and whose schema did not has failed.
C4_Witness ==
    /\ pc = "failed"
    /\ error = "TypeError"
    /\ schema_file.status = "malformed"
    /\ catalog_file.status = "ok"
    /\ catalog_file.doc.nodes # <<>>

\* Model order, then column order, then test order
Before(p, q) ==
    \/ p[1] < q[1]
    \/ p[1] = q[1] /\ p[2] < q[2]
    \/ p[1] = q[1] /\ p[2] = q[2] /\ p[3] < q[3]

\* The text between the first two single quotes of s
QuotedName(s) ==
    LET i == CHOOSE i \in 1..Len(s) :
                 s[i] = "'" /\ \A k \in 1..(i - 1) : s[k] # "'"
        j == CHOOSE j \in (i + 1)..Len(s) :
                 s[j] = "'" /\ \A k \in (i + 1)..(j - 1) : s[k] # "'"
    IN  SubSeq(s, i + 1, j - 1)

ExpectedRef(p) ==
    LET model == schema.models[p[1]]
        column == model.columns[p[2]]
        relationship == column.tests[p[3]].relationships
    IN  <<"Ref: ">> \o Upper(QuotedName(relationship.to)) \o <<".">>
            \o Upper(relationship.field) \o <<" > ">> \o Upper(model.name)
            \o <<".">> \o Upper(column.name) \o <<" \n">>

\* C7: on a successful run the relationship lines come after every table
\* block and are, in model, column and test order, one line
\* Ref: TARGET.FIELD > SOURCE.FIELD per relationship test of the schema,
\* all four names upper-cased, whether or not the model has a catalog table.
C7_RelationshipLines ==
    pc = "done" =>
        /\ Len(EmittedRefs) = Cardinality(RelPositions)
        /\ \A p \in RelPositions :
               EmittedRefs[Cardinality({q \in RelPositions : Before(q, p)}) + 1]
                   = ExpectedRef(p)
        /\ \A k \in 1..Len(dbml.content) : \A j \in 1..Len(dbml.content) :
               (IsRef(dbml.content[k]) /\ k < j) => IsRef(dbml.content[j])

\* C7 witness: a successful run that wrote a table block and then the lines
\* of several columns, some of a model that has no catalog table.
C7_Witness ==
    /\ pc = "done"
    /\ EmittedTables # <<>>
    /\ Len(EmittedRefs) >= 4
    /\ \E p \in RelPositions :
           /\ p[2] = 2
           /\ \A k \in 1..Len(catalog.nodes) :
                  ~SameIgnoringCase(catalog.nodes[k].metadata.name,
                                    schema.models[p[1]].name)

-----------------------------------------------------------------------------
(* Table claims, verified under SpecTable.                                  *)

NodeEmitted(k) == InList(catalog.nodes[k].metadata.name, tables)

\* The position in the file of the header of catalog node k's table block,
\* every block before it being complete
RECURSIVE BlockStart(_)
BlockStart(k) ==
    IF k = 1 THEN 1
    ELSE BlockStart(k - 1)
         + (IF NodeEmitted(k - 1) THEN Len(catalog.nodes[k - 1].columns) + 2 ELSE 0)

\* The write() made for column c of catalog node k
EmittedColumnLine(k, c) == dbml.content[BlockStart(k) + c]

\* The schema model WriteTable uses for catalog node k
SchemaModelOf(k) ==
    schema.models[FindByName(schema.models, Lower(catalog.nodes[k].metadata.name))]

EmittedColumns ==
    UNION {{<<k, c>> : c \in 1..Len(catalog.nodes[k].columns)}
              : k \in {k \in 1..Len(catalog.nodes) : NodeEmitted(k)}}

\* The schema columns whose name equals, ignoring case, that of column c of
\* catalog node k
Counterparts(k, c) ==
    {j \in 1..Len(SchemaModelOf(k).columns) :
        SameIgnoringCase(SchemaModelOf(k).columns[j].name,
                         catalog.nodes[k].columns[c].name)}

Min(S) == CHOOSE x \in S : \A y \in S : x <= y

\* "name type " of column c of catalog node k, in the catalog's casing
NameAndType(k, c) ==
    catalog.nodes[k].columns[c].name \o <<" ">>
        \o catalog.nodes[k].columns[c].type \o <<" ">>

\* C5: a catalog column and a schema column whose names are equal ignoring
\* case match whatever the casing on either side: the line carries the
\* schema column's tests and description, after the catalog's casing of the
\* name.
C5_ColumnsMatchIgnoringCase ==
    pc = "done" =>
        \A p \in EmittedColumns :
            Counterparts(p[1], p[2]) # {} =>
                EmittedColumnLine(p[1], p[2]) =
                    NameAndType(p[1], p[2])
                    \o ColumnDocs(docs_dict,
                           SchemaModelOf(p[1]).columns[Min(Counterparts(p[1], p[2]))])
                    \o <<" \n">>

\* The schema column WriteTable finds for column c of catalog node k (0: none)
FoundColumn(k, c) ==
    FindByName(SchemaModelOf(k).columns, Lower(catalog.nodes[k].columns[c].name))

HasTest(column, tag) ==
    /\ "tests" \in DOMAIN column
    /\ \E t \in 1..Len(column.tests) :
           IsStr(column.tests[t]) /\ column.tests[t].str = tag

\* Columns the lookup matched that carry not_null, unique and a description
FullyAnnotated ==
    {p \in EmittedColumns :
        /\ FoundColumn(p[1], p[2]) # 0
        /\ LET column == SchemaModelOf(p[1]).columns[FoundColumn(p[1], p[2])]
           IN  /\ HasTest(column, "not_null")
               /\ HasTest(column, "unique")
               /\ "description" \in DOMAIN column}

\* C6 as stated: whatever the order of the tests, the block is
\* [not null, unique, pk, note: '<description>'].
C6_FixedOrderLowerNote ==
    pc = "done" =>
        \A p \in FullyAnnotated :
            LET column == SchemaModelOf(p[1]).columns[FoundColumn(p[1], p[2])]
            IN  EmittedColumnLine(p[1], p[2]) =
                    NameAndType(p[1], p[2])
                    \o <<"[", "not null", ", ", "unique, pk", ", ", "note: '">>
                    \o column.description \o <<"'", "]", " \n">>

\* The tags of the not_null and unique tests, each followed by ", ", in the
\* order the tests are listed
ListedTags(tests) ==
    LET kept == SelectSeq(tests, LAMBDA t : IsStr(t) /\ t.str \in {"not_null", "unique"})
    IN  [i \in 1..(2 * Len(kept)) |->
            IF i % 2 = 0 THEN ", "
            ELSE IF kept[(i + 1) \div 2].str = "not_null" THEN "not null"
            ELSE "unique, pk"]

\* C6 amended: the block holds one tag per test in the order the tests are
\* listed and then the note, spelled Note: '<description>'; it is
\* [not null, unique, pk, Note: '<description>'] for tests listed as
\* not_null, unique.
C6_ListedOrderNote ==
    pc = "done" =>
        \A p \in FullyAnnotated :
            LET column == SchemaModelOf(p[1]).columns[FoundColumn(p[1], p[2])]
            IN  /\ EmittedColumnLine(p[1], p[2]) =
                       NameAndType(p[1], p[2]) \o <<"[">> \o ListedTags(column.tests)
                       \o <<"Note: '">> \o column.description \o <<"'", "]", " \n">>
                /\ column.tests = <<[str |-> "not_null"], [str |-> "unique"]>> =>
                       EmittedColumnLine(p[1], p[2]) =
                           NameAndType(p[1], p[2])
                           \o <<"[", "not null", ", ", "unique, pk", ", ", "Note: '">>
                           \o column.description \o <<"'", "]", " \n">>

\* C6 witness: a block was written for a column that lists unique before
\* not_null, and one for a column that lists not_null before unique.
C6_Witness ==
    /\ pc = "done"
    /\ \E p \in FullyAnnotated :
           SchemaModelOf(p[1]).columns[FoundColumn(p[1], p[2])].tests
               = <<[str |-> "unique"], [str |-> "not_null"]>>

\* C10: every catalog column of an emitted table gets a line, in catalog
\* order, starting with its name and type in the catalog's casing; a column
\* with no schema counterpart gets "name type" and no bracketed block; the
\* block is the header, one line per catalog column and the closing write;
\* and the run does not abort.
C10_UnmatchedColumnsEmitted ==
    /\ pc # "failed"
    /\ pc = "done" =>
           /\ \A p \in EmittedColumns :
                  LET line == EmittedColumnLine(p[1], p[2])
                      head == NameAndType(p[1], p[2])
                  IN  /\ Len(line) > Len(head)
                      /\ SubSeq(line, 1, Len(head)) = head
                      /\ Counterparts(p[1], p[2]) = {} => line = head \o <<" \n">>
           /\ \A k \in 1..Len(catalog.nodes) :
                  NodeEmitted(k) =>
                      LET last == BlockStart(k) + Len(catalog.nodes[k].columns) + 1
                          closing == dbml.content[last]
                      IN  /\ IsHeader(dbml.content[BlockStart(k)])
                          /\ SubSeq(closing, Len(closing) - 1, Len(closing))
                                 = <<"}", " \n">>
                          /\ \A j \in (BlockStart(k) + 1)..(last - 1) :
                                 /\ ~IsHeader(dbml.content[j])
                                 /\ ~Contains(dbml.content[j], "}")

\* C10 witness: a finished block in which a column with no schema
\* counterpart stands between or next to a column that has one.
C10_Witness ==
    /\ pc = "done"
    /\ \E p \in EmittedColumns : \E q \in EmittedColumns :
           /\ p[1] = q[1]
           /\ Counterparts(p[1], p[2]) = {}
           /\ FoundColumn(q[1], q[2]) # 0
           /\ ColumnDocs(docs_dict, SchemaModelOf(q[1]).columns[FoundColumn(q[1], q[2])])
                  # <<>>

-----------------------------------------------------------------------------
(* Description claims, verified under SpecDesc.                             *)

\* The positions of t at which a documentation reference starts
RefStarts(t) == {i \in 1..Len(t) : MatchAt(t, i).end > 0}

\* The references re.sub replaces: leftmost first, none starting inside
\* another that is replaced
Replaced(t) ==
    CHOOSE S \in SUBSET RefStarts(t) :
        \A i \in RefStarts(t) :
            i \in S <=> ~\E j \in S : j < i /\ i < MatchAt(t, j).end

RECURSIVE Flatten(_)
Flatten(ss) == IF ss = <<>> THEN <<>> ELSE Head(ss) \o Flatten(Tail(ss))

\* t with each replaced reference turned into the index's text for its key,
\* or into nothing when the index has no such key
Resolved(d, t) ==
    LET S == Replaced(t)
        piece(p) ==
            IF p \in S
            THEN IF MatchAt(t, p).key \in DOMAIN d THEN d[MatchAt(t, p).key] ELSE <<>>
            ELSE IF \E j \in S : j < p /\ p < MatchAt(t, j).end THEN <<>>
            ELSE <<t[p]>>
    IN  Flatten([p \in 1..Len(t) |-> piece(p)])

\* C8: ReplaceJinjaVariables returns the text with every reference replaced
\* by the index's text for its key, or removed when the key is absent, and
\* returns a text that holds no reference unchanged.
C8_ReferencesResolved ==
    pc = "ReplaceJinjaVariables" =>
        /\ ret = Resolved(docs_dict, arg.description)
        /\ RefStarts(arg.description) = {} => ret = arg.description

\* C8 witness: a call on a text with a reference whose key the index holds
\* and a reference whose key it lacks has returned.
C8_Witness ==
    /\ pc = "ReplaceJinjaVariables"
    /\ \E i \in Replaced(arg.description) :
           MatchAt(arg.description, i).key \in DOMAIN docs_dict
    /\ \E i \in Replaced(arg.description) :
           MatchAt(arg.description, i).key \notin DOMAIN docs_dict
    /\ ret # <<>>

\* C9: ParseDescription returns "" for an entity without a description and
\* otherwise Note: '<text>', <text> being the description with its references
\* resolved and every single quote removed.
C9_NoteWithoutQuotes ==
    pc = "ParseDescription" =>
        IF "description" \notin DOMAIN arg THEN ret = <<>>
        ELSE ret = <<"Note: '">>
                   \o StripQuotes(ReplaceJinjaVariables(docs_dict, arg.description))
                   \o <<"'">>

====
